---------------------------- MODULE Spec2Model ----------------------------
(*
  RobotCLI (hepsi33/System-Intelligence): the tool-calling loop of
  RobotBackend.chat_step (src/backend.py) driven by interactive_session
  (src/main.py).

  chat_step is a generator; the model follows it from one external call or
  yield to the next:

      await --ChatStep--> model1 --FirstCall*--> parse | content
      parse --ParseArgs*--> dispatch | content
      dispatch --DispatchStep--> parse | synth
      synth --Synthesis*--> content --EndTurn--> await

  The remote language model is an external collaborator: what it returns (a
  text, a batch of tool calls, a failure) is chosen nondeterministically from
  small sets.
*)
EXTENDS Integers, Sequences, FiniteSets, TLC

-----------------------------------------------------------------------------
(* Bounds of the model *)

\* user turns per session
MaxTurns == 2
\* tool calls the model stub may issue in one session, over all its batches
MaxInvocations == 2

-----------------------------------------------------------------------------
(* Values *)

\* Python's None (a message without text, a turn field that is absent)
None == "<None>"

SystemPrompt == "You are RobotCLI, an advanced Windows System Intelligence Agent."

\* RobotBackend.__init__(api_key, model="google/gemini-2.0-flash-001"), also
\* the default of the --model option of the start command
DefaultModel == "google/gemini-2.0-flash-001"

\* RobotBackend.get_models: the identifiers a caller may pass to set_model
Models == {"google/gemini-2.0-flash-001", "openai/gpt-4-turbo"}

\* what the user types at the prompt
UserInputs == {"list files in X", "exit", "Quit"}

\* str.lower() on the inputs above and on the paths given to the file tools
Lower(s) ==
    CASE s = "Quit" -> "quit"
      [] s = "Downloads" -> "downloads"
      [] OTHER -> s

\* texts the model may answer with; None when the message has no content
ModelTexts == {"Here are the files.", None}

\* str(e) of a failed model call (openai.APIConnectionError)
ModelErrors == {"Connection error."}

-----------------------------------------------------------------------------
(* The catalog and the module namespace of backend.py *)

\* the "name" of every entry of TOOLS_SCHEMA
SchemaNames ==
    {"create_file", "delete_file", "rename_file", "get_file_info", "move_file",
     "copy_file", "make_directory", "list_directory", "search_files",
     "organize_files_by_extension", "read_file", "write_to_file",
     "append_to_file", "zip_folder", "extract_archive", "check_resources",
     "disk_usage", "list_processes", "find_duplicates", "find_large_files",
     "git_manager"}

\* a variant of the import list without its last name
ToolImports_WithoutGit ==
    {"create_file", "delete_file", "rename_file", "get_file_info",
     "make_directory", "list_directory", "is_directory", "search_files",
     "organize_files_by_extension", "move_file", "copy_file", "read_file",
     "write_to_file", "append_to_file", "zip_folder", "extract_archive",
     "check_resources", "disk_usage", "list_processes", "find_duplicates",
     "find_large_files"}

\* from tools import (...): the functions bound in backend's namespace
ToolImports ==
    {"create_file", "delete_file", "rename_file", "get_file_info",
     "make_directory", "list_directory", "is_directory", "search_files",
     "organize_files_by_extension", "move_file", "copy_file", "read_file",
     "write_to_file", "append_to_file", "zip_folder", "extract_archive",
     "check_resources", "disk_usage", "list_processes", "find_duplicates",
     "find_large_files", "git_manager"}

\* the other names bound at module level in backend.py
OtherGlobals ==
    {"os", "json", "List", "Dict", "Any", "Generator", "OpenAI",
     "TOOLS_SCHEMA", "RobotBackend",
     "__name__", "__doc__", "__file__", "__builtins__"}

\* globals() as seen from chat_step
BackendGlobals == ToolImports \cup OtherGlobals

\* the globals that can be called: the functions and the two classes
CallableGlobals == ToolImports \cup {"OpenAI", "RobotBackend"}

-----------------------------------------------------------------------------
(* What the model stub may request *)

\* capability names the stub puts in a tool call: one of the catalog, one
\* imported but not advertised, one bound to a module, one bound to nothing
RequestNames == {"list_directory", "is_directory", "os", "frobnicate"}

\* argument payloads (tool_call.function.arguments, a text): a well-formed
\* object, an object without the required key, a truncated text
WellFormed == "{\"path\": \"X\"}"

Payloads == {WellFormed, "{}", "{\"path\": "}

\* a tool call as the stub chooses it; the id is added when it is issued:
\* the catalog capability with every payload, the other names with the
\* well-formed one
Requests ==
    {r \in [name : RequestNames, arguments : Payloads] :
        r.name = "list_directory" \/ r.arguments = WellFormed}

\* json.loads on the payloads above: the parsed object (its keys and the
\* value of "path") or the JSONDecodeError it raises
JsonLoads(s) ==
    CASE s = WellFormed ->
             [ok |-> TRUE, keys |-> {"path"}, path |-> "X", detail |-> None]
      [] s = "{}" ->
             [ok |-> TRUE, keys |-> {}, path |-> None, detail |-> None]
      [] OTHER ->
             [ok |-> FALSE, keys |-> {}, path |-> None,
              detail |-> "Expecting value: line 1 column 10 (char 9)"]

-----------------------------------------------------------------------------
(* The handlers the stub can reach (src/tools.py) *)

\* the parameters without a default, in the order of the signature
Positional(name) ==
    CASE name \in {"create_file", "delete_file", "get_file_info",
                   "make_directory", "list_directory", "is_directory",
                   "organize_files_by_extension", "read_file"} -> <<"path">>
      [] name = "rename_file" -> <<"path", "new_name">>
      [] name \in {"write_to_file", "append_to_file"} -> <<"path", "content">>
      [] name = "search_files" -> <<"query">>
      [] name \in {"move_file", "copy_file"} -> <<"source", "destination">>
      [] name = "zip_folder" -> <<"folder_path", "output_path">>
      [] name = "extract_archive" -> <<"archive_path", "output_path">>
      [] name \in {"find_duplicates", "find_large_files"} -> <<"folder_path">>
      [] name = "git_manager" -> <<"repo_path">>
      [] name \in {"OpenAI", "RobotBackend"} -> <<"api_key">>
      [] OTHER -> << >>

\* the parameters with a default
Defaulted(name) ==
    CASE name = "create_file" -> {"content"}
      [] name = "delete_file" -> {"safe"}
      [] name = "search_files" -> {"search_path"}
      [] name = "find_large_files" -> {"size_mb_threshold"}
      [] name = "git_manager" -> {"remote_url", "commit_message"}
      [] name = "RobotBackend" -> {"model"}
      [] name = "OpenAI" -> {"base_url", "timeout"}
      [] OTHER -> {}

\* keyword parameters without a default
Required(name) == {Positional(name)[k] : k \in 1..Len(Positional(name))}

\* all keyword parameters
Accepted(name) == Required(name) \cup Defaulted(name)

\* list_directory(path): every failure inside is returned as a text
list_directory(path, exists) ==
    IF exists THEN "[FILE] a.txt" ELSE "Error: Path " \o path \o " not found."

\* is_directory(path)
is_directory(path, exists) ==
    IF exists THEN "True" ELSE "False"

\* str(e) of the TypeError Python raises when the keywords do not fit the
\* parameters; an unknown keyword is reported before a missing argument
BindError(name, keys) ==
    LET Missing(p) == p \notin keys
        missing == SelectSeq(Positional(name), Missing)
    IN  IF keys \ Accepted(name) # {}
        THEN name \o "() got an unexpected keyword argument '"
                  \o (CHOOSE k \in keys \ Accepted(name) : TRUE) \o "'"
        ELSE IF Len(missing) = 1
        THEN name \o "() missing 1 required positional argument: '"
                  \o missing[1] \o "'"
        ELSE name \o "() missing 2 required positional arguments: '"
                  \o missing[1] \o "' and '" \o missing[2] \o "'"

\* what a handler that is not followed further returns: a text, its result
\* or the error it caught
Returned(name) == "<text returned by " \o name \o ">"

\* func(**args): Python binds the keywords, then runs the body.
\* raised: an exception left the call; entered: the body of a handler ran.
CallGlobal(name, args, exists) ==
    IF name \notin CallableGlobals
    THEN [raised |-> TRUE, entered |-> FALSE,
          value |-> "'module' object is not callable"]
    ELSE IF ~(Required(name) \subseteq args.keys /\ args.keys \subseteq Accepted(name))
    THEN [raised |-> TRUE, entered |-> FALSE,
          value |-> BindError(name, args.keys)]
    ELSE [raised |-> FALSE, entered |-> TRUE,
          value |-> CASE name = "list_directory" ->
                             list_directory(args.path, exists)
                      [] name = "is_directory" ->
                             is_directory(args.path, exists)
                      [] OTHER -> Returned(name)]

\* chat_step, the block under "# Dispatcher": look the name up in globals(),
\* call it, turn an exception into a text
Dispatch(name, args, exists) ==
    IF name \in BackendGlobals
    THEN LET r == CallGlobal(name, args, exists)
         IN  [entered |-> r.entered,
              result  |-> IF r.raised THEN "Execution Error: " \o r.value
                                      ELSE r.value]
    ELSE [entered |-> FALSE,
          result  |-> "Error: Function " \o name \o " not implemented."]

-----------------------------------------------------------------------------
(* The file system and the file tools (src/tools.py) *)

\* the directories relative paths are resolved against
Home == "~"
Cwd == "."

\* p / name
Join(dir, name) == dir \o "/" \o name

\* the places of the file system the tools below can touch
Locations ==
    {"~/notes.txt", "~/Downloads",
     "./notes.txt", "./src.txt",
     "./target", "./target/src.txt", "./target/notes.txt",
     "./repo", "./repo/.git", "./repo/code.py"}

\* the position of the last "/" of s, 0 when there is none
RECURSIVE LastSlash(_, _)
LastSlash(s, i) ==
    IF i = 0 THEN 0
    ELSE IF SubSeq(s, i, i) = "/" THEN i
    ELSE LastSlash(s, i - 1)

\* Path(s).name
Basename(s) == SubSeq(s, LastSlash(s, Len(s)) + 1, Len(s))

\* Path(s).parent
Parent(s) == SubSeq(s, 1, LastSlash(s, Len(s)) - 1)

\* what is at a location
Absent == [kind |-> "none", content |-> None]
File(text) == [kind |-> "file", content |-> text]
Dir == [kind |-> "dir", content |-> None]

\* Path.exists(), Path.is_dir(), os.path.isfile; Home and Cwd are directories
PathExists(f, l) == l \in {Home, Cwd} \/ (l \in Locations /\ f[l].kind # "none")
IsDir(f, l) == l \in {Home, Cwd} \/ (l \in Locations /\ f[l].kind = "dir")
IsFile(f, l) == l \in Locations /\ f[l].kind = "file"

\* what may be at each location when a tool is called
Candidates(l) ==
    CASE l \in {"./target"} -> {Absent, File("hello"), Dir}
      [] l \in {"~/Downloads", "./repo", "./repo/.git"} -> {Absent, Dir}
      [] OTHER -> {Absent, File("hello")}

\* a file system is a tree: what exists is inside a directory
IsTree(f) == \A l \in Locations : PathExists(f, l) => IsDir(f, Parent(l))

FileSystems ==
    {f \in [Locations -> {Absent, File("hello"), Dir}] :
        (\A l \in Locations : f[l] \in Candidates(l)) /\ IsTree(f)}

NoFiles == [l \in Locations |-> Absent]

\* the synonyms table of _resolve_path
common_dirs(name) ==
    CASE name = "downloads" -> "Downloads"
      [] name = "documents" -> "Documents"
      [] name = "desktop" -> "Desktop"
      [] name = "music" -> "Music"
      [] name = "pictures" -> "Pictures"
      [] name = "videos" -> "Videos"
      [] OTHER -> None

\* _resolve_path(path_str): a synonym is a directory of the home; a relative
\* path is taken in the home when it exists there, else in the working
\* directory
ResolvePath(path_str, f) ==
    IF common_dirs(Lower(path_str)) # None
    THEN Join(Home, common_dirs(Lower(path_str)))
    ELSE IF PathExists(f, Join(Home, path_str))
    THEN Join(Home, path_str)
    ELSE Join(Cwd, path_str)

\* Path.mkdir(parents=True, exist_ok=True) of the directory d
RECURSIVE MakeDirs(_, _)
MakeDirs(f, d) ==
    IF d \in {Home, Cwd} \/ IsDir(f, d) THEN [ok |-> TRUE, fs |-> f]
    ELSE IF PathExists(f, d) \/ d \notin Locations THEN [ok |-> FALSE, fs |-> f]
    ELSE LET up == MakeDirs(f, Parent(d))
         IN  IF up.ok THEN [ok |-> TRUE, fs |-> [up.fs EXCEPT ![d] = Dir]]
                      ELSE up

\* create_file(path, content): the text returned and the file system left
create_file(path, content, f) ==
    LET p == ResolvePath(path, f)
        made == MakeDirs(f, Parent(p))
    IN  IF PathExists(f, p)
        THEN [ret |-> "Error: File " \o path \o " already exists.", fs |-> f]
        ELSE IF ~made.ok
        THEN [ret |-> "Error creating file: [Errno 17] File exists: '"
                          \o Parent(p) \o "'",
              fs |-> f]
        ELSE [ret |-> "File created: " \o path,
              fs |-> [made.fs EXCEPT ![p] = File(content)]]

\* the values a caller may give for safe, as the JSON payload spells them;
\* Omitted when the argument is not given
Omitted == "<omitted>"
SafeValues == {Omitted, "true", "false", "null"}

\* bool(v), what "if safe:" tests
Truthy(v) == v = "true"

\* l is p or inside the directory p
Within(l, p) ==
    l = p \/ (Len(l) > Len(p) /\ SubSeq(l, 1, Len(p) + 1) = p \o "/")

\* the locations a removal of p takes away
Removed(f, p) == {l \in Locations : Within(l, p) /\ PathExists(f, l)}

\* the file system without p and what is inside it
Without(f, p) == [l \in Locations |-> IF Within(l, p) THEN Absent ELSE f[l]]

\* delete_file(path, safe=True): the text returned, the file system left and
\* the locations moved to the recycle bin; send2trash is taken to succeed
delete_file(path, given, f) ==
    LET p == ResolvePath(path, f)
        safe == IF given = Omitted THEN "true" ELSE given
    IN  IF ~PathExists(f, p)
        THEN [ret |-> "Error: File " \o path \o " not found.", fs |-> f,
              binned |-> {}]
        ELSE IF Truthy(safe)
        THEN [ret |-> "Moved to Recycle Bin: " \o path, fs |-> Without(f, p),
              binned |-> Removed(f, p)]
        ELSE [ret |-> "Permanently deleted: " \o path, fs |-> Without(f, p),
              binned |-> {}]

\* write_to_file(path, content): "return create_file(path, content)"
write_to_file(path, content, f) == create_file(path, content, f)

\* shutil.copy(src, dst), both relative to the working directory: the
\* exception raised (None when it returns) and the file system left
ShutilCopy(src, dst, f) ==
    LET from == Join(Cwd, src)
        given == Join(Cwd, dst)
        to == IF IsDir(f, given) THEN Join(given, Basename(src)) ELSE given
    IN  IF ~PathExists(f, from) THEN [raised |-> "FileNotFoundError", fs |-> f]
        ELSE IF IsDir(f, from) THEN [raised |-> "IsADirectoryError", fs |-> f]
        ELSE IF ~PathExists(f, Parent(to))
        THEN [raised |-> "FileNotFoundError", fs |-> f]
        ELSE IF ~IsDir(f, Parent(to))
        THEN [raised |-> "NotADirectoryError", fs |-> f]
        ELSE [raised |-> None, fs |-> [f EXCEPT ![to] = File(f[from].content)]]

\* manage_files(action, files, target), from the i-th file on: the loop has no
\* try, so the first exception leaves the function with the files before it
\* already handled; only the copy branch is followed
RECURSIVE ManageFrom(_, _, _, _, _)
ManageFrom(action, files, target, i, f) ==
    IF i > Len(files) THEN [raised |-> None, fs |-> f]
    ELSE IF action = "copy" /\ target # None
    THEN LET c == ShutilCopy(files[i], Join(target, Basename(files[i])), f)
         IN  IF c.raised # None THEN c
             ELSE ManageFrom(action, files, target, i + 1, c.fs)
    ELSE ManageFrom(action, files, target, i + 1, f)

manage_files(action, files, target, f) == ManageFrom(action, files, target, 1, f)

\* git_manager(repo_path, remote_url): the text returned, the git commands
\* run in order and the file system left.  addOk: "git add ." exits with 0
\* (check=True); the exit codes of commit and push are not looked at.
git_manager(repo_path, remote_url, addOk, f) ==
    LET path == Join(Cwd, repo_path)
        dotgit == Join(path, ".git")
        init == IF PathExists(f, dotgit) THEN << >> ELSE <<"init">>
        after == IF PathExists(f, dotgit) THEN f ELSE [f EXCEPT ![dotgit] = Dir]
        push == IF remote_url # None THEN <<"push">> ELSE << >>
    IN  IF ~PathExists(f, path)
        THEN [ret |-> "Path not found.", cmds |-> << >>, fs |-> f]
        ELSE IF ~addOk
        THEN [ret |-> "Git error: Command '['git', 'add', '.']' returned non-zero exit status 128.",
              cmds |-> init \o <<"add">>, fs |-> after]
        ELSE [ret |-> "Git operations ran.",
              cmds |-> init \o <<"add", "commit">> \o push, fs |-> after]

-----------------------------------------------------------------------------
(* State *)

VARIABLES
    history,     \* self.history: the turns, oldest first
    model,       \* self.model
    pc,          \* where the session is: "await", inside chat_step, "ended",
                 \* "interrupted"
    tool_calls,  \* msg.tool_calls of the batch being executed
    idx,         \* position in tool_calls of the current tool call
    args,        \* args: the parsed payload of the current tool call
    events,      \* what chat_step has yielded in the current user turn
    requests,    \* the model calls made in the current user turn
    ran,         \* names of the handlers whose body ran in the current turn
    base,        \* Len(history) when the current chat_step was called
    fs,          \* the file system the file tools act on
    last,        \* the last call of a file tool: arguments, file system
                 \* before it, text returned, exception raised, commands run
    replay,      \* the first of two runs of one user turn, kept to compare
    seen,        \* how many events of the current turn the for loop of
                 \* interactive_session has handled
    peer,        \* a second RobotBackend of the same process and its loop
    catalog      \* TOOLS_SCHEMA, the module-level list both sessions offer

\* the state of one RobotBackend and of the loop driving it
session == <<history, model, pc, tool_calls, idx, args, events, requests, ran, base>>

\* the state outside the session
outside == <<fs, last, replay, seen, peer, catalog>>

\* the observer, the second session and the catalog
apart == <<seen, peer, catalog>>

vars == <<history, model, pc, tool_calls, idx, args, events, requests, ran, base,
          fs, last, replay, seen, peer, catalog>>

\* --- turns ---

Turn(role, content, calls, id, name) ==
    [role |-> role, content |-> content, tool_calls |-> calls,
     tool_call_id |-> id, name |-> name]

SystemTurn == Turn("system", SystemPrompt, << >>, None, None)

UserTurn(text) == Turn("user", text, << >>, None, None)

\* {"role": "assistant", "content": content}
AssistantTurn(content) == Turn("assistant", content, << >>, None, None)

\* a variant that keeps only the text of the first response
BatchTurn_TextOnly(calls) == Turn("assistant", None, << >>, None, None)

\* a variant that keeps the tool calls of the response only under the default
\* model
BatchTurn_ByModel(calls) ==
    IF model = DefaultModel
    THEN Turn("assistant", None, calls, None, None)
    ELSE Turn("assistant", None, << >>, None, None)

\* the message object of the first response, appended as it is
BatchTurn(calls) == Turn("assistant", None, calls, None, None)

\* a variant that correlates every result with the first call of the batch
ToolTurn_FirstCall(call, result) ==
    Turn("tool", result, << >>, tool_calls[1].id, tool_calls[1].name)

\* {"tool_call_id": tool_call.id, "role": "tool", "name": func_name,
\*  "content": str(result)}
ToolTurn(call, result) == Turn("tool", result, << >>, call.id, call.name)

\* --- events ---

\* a variant that yields progress notifications as content
Status_AsContent(text) == [type |-> "content", value |-> text]

Status(text) == [type |-> "status", value |-> text]

Content(text) == [type |-> "content", value |-> text]

\* a variant that does not name the capability
RunningText_NoName(name) == "Running..."

RunningText(name) == "Running " \o name \o "..."

CompletedText(name) == "Completed " \o name \o "."

\* f"Error: {str(e)}" of the outer except clause
ErrorText(detail) == "Error: " \o detail

\* --- model calls ---

\* client.chat.completions.create(model=..., messages=self.history,
\*                                tools=TOOLS_SCHEMA, tool_choice="auto")
FirstRequest(outcome) ==
    [model |-> model, messages |-> Len(history), tools |-> SchemaNames,
     tool_choice |-> "auto", outcome |-> outcome]

\* a variant that offers the catalog again on the second call
SynthesisRequest_WithTools(outcome) ==
    [model |-> model, messages |-> Len(history), tools |-> SchemaNames,
     tool_choice |-> "auto", outcome |-> outcome]

\* client.chat.completions.create(model=..., messages=self.history)
SynthesisRequest(outcome) ==
    [model |-> model, messages |-> Len(history), tools |-> {},
     tool_choice |-> None, outcome |-> outcome]

\* --- what the session has used of its bounds ---

UserTurns == Cardinality({k \in 1..Len(history) : history[k].role = "user"})

RECURSIVE IssuedIn(_)
IssuedIn(h) ==
    IF h = << >> THEN 0 ELSE Len(Head(h).tool_calls) + IssuedIn(Tail(h))

Issued == IssuedIn(history)

\* the ids the remote API gives to the calls of a batch: fresh tokens
CallId(n) == "call_" \o ToString(n)

\* the batches the stub may return now
Batches ==
    UNION {[1..n -> Requests] : n \in 1..(MaxInvocations - Issued)}

WithIds(b) ==
    [k \in 1..Len(b) |->
        [id |-> CallId(Issued + k), name |-> b[k].name,
         arguments |-> b[k].arguments]]

NoArgs == [ok |-> TRUE, keys |-> {}, path |-> None, detail |-> None]

-----------------------------------------------------------------------------
(* Construction *)

\* RobotBackend.__init__ and the start of interactive_session
\* no file tool has been called
NoCall ==
    [op |-> None, path |-> None, content |-> None, action |-> None,
     files |-> << >>, target |-> None, remote_url |-> None, addOk |-> TRUE,
     safe |-> None, binned |-> {},
     pre |-> NoFiles, ret |-> None, raised |-> None, cmds |-> << >>]

\* no turn is being compared
NoReplay ==
    [phase |-> "off", input |-> None, asked |-> {}, turns |-> << >>,
     events |-> << >>]

\* a RobotBackend just constructed, with its loop at the prompt
NewBackend(instance) ==
    [instance |-> instance, history |-> <<SystemTurn>>, model |-> DefaultModel,
     pc |-> "await", tool_calls |-> << >>, idx |-> 0, args |-> NoArgs,
     events |-> << >>, requests |-> << >>, ran |-> << >>, base |-> 1]

\* the rest of the process when a session starts
NewProcess ==
    /\ seen = 0
    /\ peer = NewBackend(2)
    /\ catalog = SchemaNames

\* RobotBackend.__init__ and the start of interactive_session
NewSession ==
    /\ history = <<SystemTurn>>
    /\ model = DefaultModel
    /\ pc = "await"
    /\ tool_calls = << >>
    /\ idx = 0
    /\ args = NoArgs
    /\ events = << >>
    /\ requests = << >>
    /\ ran = << >>
    /\ base = 1

Init ==
    /\ NewSession
    /\ fs = NoFiles
    /\ last = NoCall
    /\ replay = NoReplay
    /\ NewProcess

-----------------------------------------------------------------------------
(* Operations *)

\* a variant that starts a new conversation when the model is switched
SetModel_Resets(m) ==
    /\ pc = "await"
    /\ model' = m
    /\ history' = <<SystemTurn>>
    /\ UNCHANGED <<pc, tool_calls, idx, args, events, requests, ran, base>>

\* RobotBackend.set_model, between two user turns
SetModel(m) ==
    /\ pc = "await"
    /\ model' = m
    /\ UNCHANGED <<history, pc, tool_calls, idx, args, events, requests, ran, base>>

\* interactive_session: the user types exit or quit
Exit(u) ==
    /\ pc = "await"
    /\ Lower(u) \in {"exit", "quit"}
    /\ pc' = "ended"
    /\ UNCHANGED <<history, model, tool_calls, idx, args, events, requests, ran, base>>

\* a variant that keeps the history at a fixed window by dropping the oldest
\* turn once it holds more than the system turn
ChatStep_Truncates(u) ==
    /\ pc = "await"
    /\ Lower(u) \notin {"exit", "quit"}
    /\ UserTurns < MaxTurns
    /\ history' = IF Len(history) > 1
                  THEN Append(Tail(history), UserTurn(u))
                  ELSE Append(history, UserTurn(u))
    /\ base' = Len(history') - 1
    /\ events' = << >>
    /\ requests' = << >>
    /\ ran' = << >>
    /\ tool_calls' = << >>
    /\ idx' = 0
    /\ args' = NoArgs
    /\ pc' = "model1"
    /\ UNCHANGED model

\* interactive_session calls chat_step(user_input): the user turn is appended
ChatStep(u) ==
    /\ pc = "await"
    /\ Lower(u) \notin {"exit", "quit"}
    /\ UserTurns < MaxTurns
    /\ history' = Append(history, UserTurn(u))
    /\ base' = Len(history)
    /\ events' = << >>
    /\ requests' = << >>
    /\ ran' = << >>
    /\ tool_calls' = << >>
    /\ idx' = 0
    /\ args' = NoArgs
    /\ pc' = "model1"
    /\ UNCHANGED model

\* a variant that takes the user turn back when the call fails
FirstCallFails_DropsUser(e) ==
    /\ pc = "model1"
    /\ requests' = Append(requests, FirstRequest("error"))
    /\ history' = SubSeq(history, 1, base)
    /\ events' = Append(events, Content(ErrorText(e)))
    /\ pc' = "content"
    /\ UNCHANGED <<model, tool_calls, idx, args, ran, base>>

\* a variant that also records the error as an assistant turn
FirstCallFails_Recorded(e) ==
    /\ pc = "model1"
    /\ requests' = Append(requests, FirstRequest("error"))
    /\ history' = Append(history, AssistantTurn(ErrorText(e)))
    /\ events' = Append(events, Content(ErrorText(e)))
    /\ pc' = "content"
    /\ UNCHANGED <<model, tool_calls, idx, args, ran, base>>

\* the first model call raises: the outer except yields the error
FirstCallFails(e) ==
    /\ pc = "model1"
    /\ requests' = Append(requests, FirstRequest("error"))
    /\ events' = Append(events, Content(ErrorText(e)))
    /\ pc' = "content"
    /\ UNCHANGED <<history, model, tool_calls, idx, args, ran, base>>

\* a variant that asks the model again after a response without tool calls
FirstCallFinal_Synthesizes(text) ==
    /\ pc = "model1"
    /\ requests' = Append(requests, FirstRequest("final"))
    /\ history' = Append(history, AssistantTurn(text))
    /\ events' = events
    /\ pc' = "synth"
    /\ UNCHANGED <<model, tool_calls, idx, args, ran, base>>

\* the first response has no tool calls: the else branch
FirstCallFinal(text) ==
    /\ pc = "model1"
    /\ requests' = Append(requests, FirstRequest("final"))
    /\ history' = Append(history, AssistantTurn(text))
    /\ events' = Append(events, Content(text))
    /\ pc' = "content"
    /\ UNCHANGED <<model, tool_calls, idx, args, ran, base>>

\* the first response has tool calls: the message is appended, the loop begins
FirstCallBatch(b) ==
    /\ pc = "model1"
    /\ requests' = Append(requests, FirstRequest("batch"))
    /\ history' = Append(history, BatchTurn(WithIds(b)))
    /\ tool_calls' = WithIds(b)
    /\ idx' = 1
    /\ pc' = "parse"
    /\ UNCHANGED <<model, args, events, ran, base>>

\* top of the loop body: json.loads(tool_call.function.arguments), then
\* the Running event; a JSONDecodeError goes to the outer except
ParseArgs ==
    /\ pc = "parse"
    /\ LET call == tool_calls[idx]
           r    == JsonLoads(call.arguments)
       IN  IF r.ok
           THEN /\ args' = r
                /\ events' = Append(events, Status(RunningText(call.name)))
                /\ pc' = "dispatch"
           ELSE /\ args' = args
                /\ events' = Append(events, Content(ErrorText(r.detail)))
                /\ pc' = "content"
    /\ UNCHANGED <<history, model, tool_calls, idx, requests, ran, base>>

\* the dispatcher, the tool turn, the Completed event, the next iteration
DispatchStep(exists) ==
    /\ pc = "dispatch"
    /\ LET call == tool_calls[idx]
           d    == Dispatch(call.name, args, exists)
       IN  /\ history' = Append(history, ToolTurn(call, d.result))
           /\ ran' = IF d.entered THEN Append(ran, call.name) ELSE ran
           /\ events' = Append(events, Status(CompletedText(call.name)))
    /\ idx' = idx + 1
    /\ pc' = IF idx < Len(tool_calls) THEN "parse" ELSE "synth"
    /\ UNCHANGED <<model, tool_calls, args, requests, base>>

\* the synthesis call returns: the answer is appended and yielded
SynthesisFinal(text) ==
    /\ pc = "synth"
    /\ requests' = Append(requests, SynthesisRequest("final"))
    /\ history' = Append(history, AssistantTurn(text))
    /\ events' = Append(events, Content(text))
    /\ pc' = "content"
    /\ UNCHANGED <<model, tool_calls, idx, args, ran, base>>

\* a variant that drops the tool results of the failed turn
SynthesisFails_RollsBack(e) ==
    /\ pc = "synth"
    /\ requests' = Append(requests, SynthesisRequest("error"))
    /\ history' = SubSeq(history, 1, base + 2)
    /\ events' = Append(events, Content(ErrorText(e)))
    /\ pc' = "content"
    /\ UNCHANGED <<model, tool_calls, idx, args, ran, base>>

\* a variant in which the failure of the synthesis call ends the session
SynthesisFails_Fatal(e) ==
    /\ pc = "synth"
    /\ requests' = Append(requests, SynthesisRequest("error"))
    /\ pc' = "ended"
    /\ UNCHANGED <<history, model, tool_calls, idx, args, events, ran, base>>

\* the synthesis call raises: the outer except yields the error
SynthesisFails(e) ==
    /\ pc = "synth"
    /\ requests' = Append(requests, SynthesisRequest("error"))
    /\ events' = Append(events, Content(ErrorText(e)))
    /\ pc' = "content"
    /\ UNCHANGED <<history, model, tool_calls, idx, args, ran, base>>

\* the generator is resumed after its Content event and returns; the session
\* goes back to the prompt
EndTurn ==
    /\ pc = "content"
    /\ pc' = "await"
    /\ UNCHANGED <<history, model, tool_calls, idx, args, events, requests, ran, base>>

\* interactive_session, except KeyboardInterrupt: the user interrupts the
\* session at the prompt or while a turn is running; the loop is left
Interrupt ==
    /\ pc \notin {"ended", "interrupted"}
    /\ pc' = "interrupted"
    /\ UNCHANGED <<history, model, tool_calls, idx, args, events, requests, ran, base>>

Next ==
    \/ UNCHANGED outside /\ \E m \in Models : SetModel(m)
    \/ UNCHANGED outside /\ \E u \in UserInputs : Exit(u)
    \/ UNCHANGED outside /\ \E u \in UserInputs : ChatStep(u)
    \/ UNCHANGED outside /\ \E e \in ModelErrors : FirstCallFails(e)
    \/ UNCHANGED outside /\ \E t \in ModelTexts : FirstCallFinal(t)
    \/ UNCHANGED outside /\ \E b \in Batches : FirstCallBatch(b)
    \/ UNCHANGED outside /\ ParseArgs
    \/ UNCHANGED outside /\ \E x \in BOOLEAN : DispatchStep(x)
    \/ UNCHANGED outside /\ \E t \in ModelTexts : SynthesisFinal(t)
    \/ UNCHANGED outside /\ \E e \in ModelErrors : SynthesisFails(e)
    \/ UNCHANGED outside /\ EndTurn

Spec == Init /\ [][Next]_vars

\* the session with the user free to interrupt it
SessionNext == Next \/ (UNCHANGED outside /\ Interrupt)

\* one step of a running chat_step or of the loop that consumes its events
TurnStep ==
    /\ UNCHANGED outside
    /\ \/ \E e \in ModelErrors : FirstCallFails(e)
       \/ \E t \in ModelTexts : FirstCallFinal(t)
       \/ \E b \in Batches : FirstCallBatch(b)
       \/ ParseArgs
       \/ \E x \in BOOLEAN : DispatchStep(x)
       \/ \E t \in ModelTexts : SynthesisFinal(t)
       \/ \E e \in ModelErrors : SynthesisFails(e)
       \/ EndTurn

\* chat_step and the for loop over it are one sequential control flow: the
\* model calls return or raise within the client's timeout of 120 s, the
\* handlers return, and the loop asks for every next event
SessionSpec == Init /\ [][SessionNext]_vars /\ WF_vars(TurnStep)

-----------------------------------------------------------------------------
(* The generator and the loop that consumes its events *)

\* the for loop has handled every event yielded so far and is asking for the
\* next one: a generator runs only between a next() and its following yield
Requested == seen = Len(events)

\* chat_step(user_input) creates the generator, the for loop asks for its
\* first event
Start(u) ==
    /\ ChatStep(u)
    /\ seen' = 0
    /\ UNCHANGED <<fs, last, replay, peer, catalog>>

\* the generator goes on from the yield where it was suspended
Advance ==
    /\ Requested
    /\ UNCHANGED outside
    /\ \/ ParseArgs
       \/ \E x \in BOOLEAN : DispatchStep(x)
       \/ \E t \in ModelTexts : SynthesisFinal(t)
       \/ \E e \in ModelErrors : SynthesisFails(e)

\* the body of the for loop on the next event: a status is shown; a content
\* is added to final_content, which raises TypeError on None and leaves the
\* loop through "except Exception" with the generator abandoned
Consume ==
    /\ pc \notin {"await", "ended", "interrupted"}
    /\ seen < Len(events)
    /\ seen' = seen + 1
    /\ pc' = IF events[seen + 1].type = "content" /\ events[seen + 1].value = None
             THEN "await" ELSE pc
    /\ UNCHANGED <<history, model, tool_calls, idx, args, events, requests, ran, base>>
    /\ UNCHANGED <<fs, last, replay, peer, catalog>>

ObserverNext ==
    \/ UNCHANGED outside /\ \E m \in Models : SetModel(m)
    \/ UNCHANGED outside /\ \E u \in UserInputs : Exit(u)
    \/ \E u \in UserInputs : Start(u)
    \/ Requested /\ UNCHANGED outside /\ \E e \in ModelErrors : FirstCallFails(e)
    \/ Requested /\ UNCHANGED outside /\ \E t \in ModelTexts : FirstCallFinal(t)
    \/ Requested /\ UNCHANGED outside /\ \E b \in Batches : FirstCallBatch(b)
    \/ Advance
    \/ Requested /\ UNCHANGED outside /\ EndTurn
    \/ Consume

ObserverSpec == Init /\ [][ObserverNext]_vars

-----------------------------------------------------------------------------
(* Two sessions in one process *)

\* a variant in which the list of turns is one object of the class
HistoryList_OfClass(instance) == 0

\* the list object self.history of an instance refers to: __init__ makes a
\* new list for each instance
HistoryList(instance) == instance

\* the two sessions append to the same list
Aliased == HistoryList(1) = HistoryList(2)

\* what a step of the session in front does to the other one
Mirrored ==
    /\ peer' = IF Aliased THEN [peer EXCEPT !.history = history'] ELSE peer
    /\ UNCHANGED <<fs, last, replay, seen, catalog>>

\* user turns in a history
TurnsIn(h) == Cardinality({k \in 1..Len(h) : h[k].role = "user"})

\* the bounds of the model are for the two sessions together
TurnsLeft == TurnsIn(history) + TurnsIn(peer.history) < MaxTurns
CallsLeft(b) == Len(b) + IssuedIn(history) + IssuedIn(peer.history) <= MaxInvocations

\* the process goes on with the other session: its loop at the prompt or its
\* generator where it was suspended
Switch ==
    /\ peer' = [instance |-> 3 - peer.instance, history |-> history,
                model |-> model, pc |-> pc, tool_calls |-> tool_calls,
                idx |-> idx, args |-> args, events |-> events,
                requests |-> requests, ran |-> ran, base |-> base]
    /\ history' = peer.history
    /\ model' = peer.model
    /\ pc' = peer.pc
    /\ tool_calls' = peer.tool_calls
    /\ idx' = peer.idx
    /\ args' = peer.args
    /\ events' = peer.events
    /\ requests' = peer.requests
    /\ ran' = peer.ran
    /\ base' = peer.base
    /\ UNCHANGED <<fs, last, replay, seen, catalog>>

PairNext ==
    \/ (\E m \in Models : SetModel(m)) /\ Mirrored
    \/ (TurnsLeft /\ \E u \in UserInputs : ChatStep(u)) /\ Mirrored
    \/ (\E e \in ModelErrors : FirstCallFails(e)) /\ Mirrored
    \/ (\E t \in ModelTexts : FirstCallFinal(t)) /\ Mirrored
    \/ (\E b \in Batches : CallsLeft(b) /\ FirstCallBatch(b)) /\ Mirrored
    \/ ParseArgs /\ Mirrored
    \/ (\E x \in BOOLEAN : DispatchStep(x)) /\ Mirrored
    \/ (\E t \in ModelTexts : SynthesisFinal(t)) /\ Mirrored
    \/ (\E e \in ModelErrors : SynthesisFails(e)) /\ Mirrored
    \/ EndTurn /\ Mirrored
    \/ Switch

PairSpec == Init /\ [][PairNext]_vars

-----------------------------------------------------------------------------
(* The dispatcher on every name of the catalog *)

\* the names a tool call may carry: the whole catalog and the names above
CatalogNames == SchemaNames \cup RequestNames

\* chat_step at the top of its for loop, the first response being a batch of
\* one tool call
CatalogInit ==
    \E name \in CatalogNames, payload \in Payloads :
        LET call == [id |-> CallId(1), name |-> name, arguments |-> payload]
        IN  /\ history = <<SystemTurn, UserTurn("list files in X"), BatchTurn(<<call>>)>>
            /\ model = DefaultModel
            /\ pc = "parse"
            /\ tool_calls = <<call>>
            /\ idx = 1
            /\ args = NoArgs
            /\ events = << >>
            /\ requests = <<[model |-> DefaultModel, messages |-> 2,
                             tools |-> SchemaNames, tool_choice |-> "auto",
                             outcome |-> "batch"]>>
            /\ ran = << >>
            /\ base = 1
            /\ fs = NoFiles
            /\ last = NoCall
            /\ replay = NoReplay
            /\ NewProcess

CatalogNext ==
    \/ UNCHANGED outside /\ ParseArgs
    \/ UNCHANGED outside /\ \E x \in BOOLEAN : DispatchStep(x)
    \/ UNCHANGED outside /\ \E t \in ModelTexts : SynthesisFinal(t)
    \/ UNCHANGED outside /\ \E e \in ModelErrors : SynthesisFails(e)
    \/ UNCHANGED outside /\ EndTurn

CatalogSpec == CatalogInit /\ [][CatalogNext]_vars

-----------------------------------------------------------------------------
(* The file tools called on their own, as src/test_tools.py calls them *)

WritePaths == {"notes.txt", "Downloads", "target/src.txt"}
WriteContents == {"new"}
FileLists == {<<"src.txt">>, <<"notes.txt", "src.txt">>}
Targets == {"target", None}
RepoPaths == {"repo"}
RemoteUrls == {None, "https://example.com/r.git"}

WriteToFile(path, content) ==
    LET r == write_to_file(path, content, fs)
    IN  /\ fs' = r.fs
        /\ last' = [NoCall EXCEPT !.op = "write_to_file", !.path = path,
                                  !.content = content, !.pre = fs, !.ret = r.ret]
        /\ UNCHANGED <<session, replay, apart>>

ManageFiles(action, files, target) ==
    LET r == manage_files(action, files, target, fs)
    IN  /\ fs' = r.fs
        /\ last' = [NoCall EXCEPT !.op = "manage_files", !.action = action,
                                  !.files = files, !.target = target,
                                  !.pre = fs, !.raised = r.raised]
        /\ UNCHANGED <<session, replay, apart>>

GitManager(repo_path, remote_url, addOk) ==
    LET r == git_manager(repo_path, remote_url, addOk, fs)
    IN  /\ fs' = r.fs
        /\ last' = [NoCall EXCEPT !.op = "git_manager", !.path = repo_path,
                                  !.remote_url = remote_url, !.addOk = addOk,
                                  !.pre = fs, !.ret = r.ret, !.cmds = r.cmds]
        /\ UNCHANGED <<session, replay, apart>>

DeletePaths == {"notes.txt", "target", "Downloads"}

DeleteFile(path, given) ==
    LET r == delete_file(path, given, fs)
    IN  /\ fs' = r.fs
        /\ last' = [NoCall EXCEPT !.op = "delete_file", !.path = path,
                                  !.safe = given, !.pre = fs, !.ret = r.ret,
                                  !.binned = r.binned]
        /\ UNCHANGED <<session, replay, apart>>

ToolInit ==
    /\ NewSession
    /\ fs \in FileSystems
    /\ last = NoCall
    /\ replay = NoReplay
    /\ NewProcess

ToolNext ==
    \/ \E path \in WritePaths, content \in WriteContents : WriteToFile(path, content)
    \/ \E files \in FileLists, target \in Targets : ManageFiles("copy", files, target)
    \/ \E repo_path \in RepoPaths, remote_url \in RemoteUrls, addOk \in BOOLEAN :
           GitManager(repo_path, remote_url, addOk)
    \/ \E path \in DeletePaths, given \in SafeValues : DeleteFile(path, given)

ToolSpec == ToolInit /\ [][ToolNext]_vars

-----------------------------------------------------------------------------
(* One user turn run twice from the same history, against a stub that answers
   the same request the same way *)

\* what the stub reads of a request: the conversation and the catalog offered
Key(tools) == [messages |-> history, tools |-> tools]

\* what the stub answers: a failure, a text, a batch of tool calls
Answer(kind, text, batch) == [kind |-> kind, text |-> text, batch |-> batch]

\* the stub is a function: a request it has answered gets the same answer
Allowed(key, answer) ==
    \A q \in replay.asked : q.key = key => q.answer = answer

\* the first run fills the table of the stub
Asked(key, answer) ==
    /\ Allowed(key, answer)
    /\ replay' = IF replay.phase = "first"
                 THEN [replay EXCEPT !.asked = @ \cup {[key |-> key, answer |-> answer]}]
                 ELSE replay
    /\ UNCHANGED <<fs, last, apart>>

\* the turns the running or last chat_step has appended
Appended == SubSeq(history, base + 1, Len(history))

\* a turn of a new session, before the turn that is compared
EarlierTurn(u) ==
    /\ replay.phase = "off"
    /\ history = <<SystemTurn>>
    /\ ChatStep(u)
    /\ UNCHANGED outside

\* chat_step(u) in the first session
FirstRun(u) ==
    /\ replay.phase = "off"
    /\ ChatStep(u)
    /\ replay' = [NoReplay EXCEPT !.phase = "first", !.input = u]
    /\ UNCHANGED <<fs, last, apart>>

\* the second session: a RobotBackend whose history equals the one the first
\* session had when chat_step was called
Rewind ==
    /\ replay.phase = "first"
    /\ pc = "await"
    /\ replay' = [replay EXCEPT !.phase = "rewound", !.turns = Appended,
                                !.events = events]
    /\ history' = SubSeq(history, 1, base)
    /\ events' = << >>
    /\ requests' = << >>
    /\ ran' = << >>
    /\ tool_calls' = << >>
    /\ idx' = 0
    /\ args' = NoArgs
    /\ UNCHANGED <<model, pc, base, fs, last, apart>>

\* chat_step with the same input in the second session
SecondRun ==
    /\ replay.phase = "rewound"
    /\ ChatStep(replay.input)
    /\ replay' = [replay EXCEPT !.phase = "second"]
    /\ UNCHANGED <<fs, last, apart>>

\* the second session may use another model
SecondModel(m) ==
    /\ replay.phase = "rewound"
    /\ SetModel(m)
    /\ UNCHANGED outside

ReplayNext ==
    \/ \E m \in Models : SecondModel(m)
    \/ \E u \in UserInputs : EarlierTurn(u)
    \/ \E u \in UserInputs : FirstRun(u)
    \/ Rewind
    \/ SecondRun
    \/ \E e \in ModelErrors :
           FirstCallFails(e) /\ Asked(Key(SchemaNames), Answer("error", e, << >>))
    \/ \E t \in ModelTexts :
           FirstCallFinal(t) /\ Asked(Key(SchemaNames), Answer("final", t, << >>))
    \/ \E b \in Batches :
           FirstCallBatch(b) /\ Asked(Key(SchemaNames), Answer("batch", None, WithIds(b)))
    \/ UNCHANGED outside /\ ParseArgs
    \/ UNCHANGED outside /\ \E x \in BOOLEAN : DispatchStep(x)
    \/ \E t \in ModelTexts :
           SynthesisFinal(t) /\ Asked(Key({}), Answer("final", t, << >>))
    \/ \E e \in ModelErrors :
           SynthesisFails(e) /\ Asked(Key({}), Answer("error", e, << >>))
    \/ UNCHANGED outside /\ EndTurn

ReplaySpec == Init /\ [][ReplayNext]_vars

-----------------------------------------------------------------------------
(* Vocabulary of the properties *)

\* a chat_step has run and has yielded its last event
TurnDone == pc \in {"content", "await", "ended"} /\ requests # << >>

\* the first model call of the current turn returned tool calls
BatchReturned == requests # << >> /\ requests[1].outcome = "batch"

FirstCallFailed == requests # << >> /\ requests[1].outcome = "error"

SynthesisFailed == Len(requests) = 2 /\ requests[2].outcome = "error"

\* the invocations of the current turn's batch, as the history holds them
BatchCalls == history[base + 2].tool_calls

\* the turn where the result of the i-th invocation belongs
ResultIndex(i) == base + 2 + i

\* the i-th invocation has its result, correlated by id
HasResult(i) ==
    /\ Len(history) >= ResultIndex(i)
    /\ history[ResultIndex(i)].role = "tool"
    /\ history[ResultIndex(i)].tool_call_id = BatchCalls[i].id

\* every invocation of the batch has its result, in order, and nothing else
\* of role tool follows
AllResults ==
    /\ \A i \in 1..Len(BatchCalls) : HasResult(i)
    /\ \A k \in (ResultIndex(Len(BatchCalls)) + 1)..Len(history) :
           history[k].role # "tool"

IsFinalAnswer(t) == t.role = "assistant" /\ t.tool_calls = << >>

Malformed(call) == ~JsonLoads(call.arguments).ok

\* the call reaches a global and the call of it raises
Raises(call) ==
    /\ JsonLoads(call.arguments).ok
    /\ call.name \in BackendGlobals
    /\ CallGlobal(call.name, JsonLoads(call.arguments), TRUE).raised

\* the error texts the loop itself produces
LoopErrors ==
    {ErrorText(d) : d \in ModelErrors \cup {JsonLoads(a).detail : a \in Payloads}}

NotImplementedText(name) == "Error: Function " \o name \o " not implemented."

-----------------------------------------------------------------------------
(* Properties *)

\* C1: when chat_step has finished after a batch of n invocations, whatever
\* their names and payloads, exactly n tool turns follow the batch turn and
\* the i-th carries the id of the i-th invocation.
C1_EveryInvocationHasItsResult ==
    (TurnDone /\ BatchReturned) => AllResults

\* C2: an invocation whose payload does not parse gets a tool turn whose text
\* is an execution error with the parse detail, and the turn goes on: all
\* results are appended and the synthesis call is made.
C2_MalformedPayloadBecomesResult ==
    (TurnDone /\ BatchReturned) =>
        \A i \in 1..Len(BatchCalls) :
            Malformed(BatchCalls[i]) =>
                /\ HasResult(i)
                /\ history[ResultIndex(i)].content =
                       "Execution Error: " \o JsonLoads(BatchCalls[i].arguments).detail
                /\ AllResults
                /\ Len(requests) = 2

\* C3: for a name that is not in TOOLS_SCHEMA no handler runs and the result
\* says the function is not implemented; the batch and the synthesis go on.
C3_UnadvertisedNameNotImplemented ==
    /\ \A j \in 1..Len(ran) : ran[j] \in SchemaNames
    /\ \A k \in 1..Len(history) :
           (history[k].role = "tool" /\ history[k].name \notin SchemaNames) =>
               history[k].content = NotImplementedText(history[k].name)
    /\ (TurnDone /\ BatchReturned) =>
           \A i \in 1..Len(BatchCalls) :
               (BatchCalls[i].name \notin SchemaNames /\ HasResult(i)) =>
                   AllResults /\ Len(requests) = 2

\* C4: when a handler call raises, its invocation gets the result
\* "Execution Error: <detail>", the rest of the batch and the synthesis call
\* run, and the turn ends with a result for every invocation of the batch.
C4_HandlerFailureIsolated ==
    (TurnDone /\ BatchReturned) =>
        \A i \in 1..Len(BatchCalls) :
            (Raises(BatchCalls[i]) /\ HasResult(i)) =>
                /\ history[ResultIndex(i)].content =
                       "Execution Error: "
                           \o CallGlobal(BatchCalls[i].name,
                                         JsonLoads(BatchCalls[i].arguments),
                                         TRUE).value
                /\ AllResults
                /\ Len(requests) = 2

\* C5: when the first model call fails the turn's events are exactly one
\* Content event with an error description, and the history is one longer
\* than before the turn: only the user turn was appended.
C5_FirstCallFailure ==
    (TurnDone /\ FirstCallFailed) =>
        /\ Len(events) = 1
        /\ events[1].type = "content"
        /\ events[1].value \in {ErrorText(e) : e \in ModelErrors}
        /\ Len(history) = base + 1
        /\ history[base + 1].role = "user"

C5_Witness ==
    pc = "await" /\ FirstCallFailed /\ base > 1

\* C6: when the synthesis call fails the history keeps the user turn, the
\* batch turn and all n tool turns and gets no final answer, the last event
\* is a Content event with the error, and a further chat_step can start.
C6_SynthesisFailureKeepsHistory ==
    (TurnDone /\ SynthesisFailed) =>
        /\ history[base + 1].role = "user"
        /\ history[base + 2].role = "assistant"
        /\ BatchCalls = tool_calls
        /\ Len(BatchCalls) >= 1
        /\ Len(history) = ResultIndex(Len(BatchCalls))
        /\ AllResults
        /\ \A k \in (base + 1)..Len(history) : ~IsFinalAnswer(history[k])
        /\ events[Len(events)].type = "content"
        /\ events[Len(events)].value \in {ErrorText(e) : e \in ModelErrors}
        /\ (pc = "await" /\ UserTurns < MaxTurns) =>
               ENABLED (\E u \in UserInputs : ChatStep(u))

C6_Witness ==
    pc = "await" /\ SynthesisFailed /\ Len(tool_calls) = 2

\* C7: a Content event with an error text of the loop is emitted only when
\* one of the two model calls failed; a capability-level failure never ends
\* the turn without a synthesis call.
C7_OnlyModelFailuresSurface ==
    /\ \A k \in 1..Len(events) :
           (events[k].type = "content" /\ events[k].value \in LoopErrors) =>
               \E j \in 1..Len(requests) : requests[j].outcome = "error"
    /\ (TurnDone /\ BatchReturned) => Len(requests) = 2

\* C8: a finished turn has emitted exactly one Content event and it is the
\* last event; before the turn is finished only Status events are out.
C8_OneContentEventLast ==
    /\ TurnDone =>
           /\ events # << >>
           /\ events[Len(events)].type = "content"
           /\ \A k \in 1..(Len(events) - 1) : events[k].type = "status"
    /\ pc \in {"model1", "parse", "dispatch", "synth"} =>
           \A k \in 1..Len(events) : events[k].type = "status"

C8_Witness ==
    /\ pc = "await"
    /\ Len(events) = 5
    /\ events[4].type = "status"
    /\ events[5].type = "content"

\* C9: two assistant final-answer turns of the history are always separated
\* by a user turn.
C9_OneFinalAnswerPerUserTurn ==
    \A i \in 1..Len(history) : \A j \in (i + 1)..Len(history) :
        (IsFinalAnswer(history[i]) /\ IsFinalAnswer(history[j])) =>
            \E k \in (i + 1)..(j - 1) : history[k].role = "user"

C9_Witness ==
    /\ pc = "await"
    /\ Len(history) = 7
    /\ history[3].tool_calls # << >>
    /\ IsFinalAnswer(history[5])
    /\ IsFinalAnswer(history[7])

\* C10: at most two model calls per user turn; the first offers the whole
\* catalog with tool choice auto; the second comes only after the batch has
\* been executed, offers no catalog, and no tool turn and no model call
\* follow it in the turn.
C10_SingleBatchSingleSynthesis ==
    /\ Len(requests) <= 2
    /\ requests # << >> =>
           /\ requests[1].tools = SchemaNames
           /\ requests[1].tool_choice = "auto"
           /\ requests[1].messages = base + 1
    /\ Len(requests) = 2 =>
           /\ requests[1].outcome = "batch"
           /\ requests[2].tools = {}
           /\ requests[2].tool_choice = None
           /\ requests[2].messages = ResultIndex(Len(BatchCalls))
           /\ \A i \in 1..Len(BatchCalls) : HasResult(i)
           /\ \A k \in (requests[2].messages + 1)..Len(history) :
                  history[k].role # "tool"
           /\ pc \in {"content", "await", "ended"}

C10_Witness ==
    pc = "content" /\ Len(requests) = 2 /\ Len(tool_calls) = 2

\* C11: in every reachable state the first element of the history is the
\* system turn set at construction.
C11_SystemTurnFirst ==
    /\ Len(history) >= 1
    /\ history[1] = SystemTurn
    /\ \A k \in 2..Len(history) : history[k].role # "system"

C11_Witness ==
    /\ pc = "await"
    /\ model # DefaultModel
    /\ UserTurns = 2
    /\ FirstCallFailed
    /\ Len(history) >= 5

IsPrefix(s, t) == Len(s) <= Len(t) /\ SubSeq(t, 1, Len(s)) = s

\* C12: every step leaves the old history as a prefix of the new one, the
\* call of chat_step makes it strictly longer, and a finished turn has left
\* it longer than it was before the turn, however the turn ended.
C12_AppendOnly ==
    /\ [](TurnDone => Len(history) > base)
    /\ [][/\ IsPrefix(history, history')
          /\ (pc = "await" /\ pc' = "model1") => Len(history') > Len(history)]_vars

C12_Witness ==
    /\ pc = "await"
    /\ UserTurns = 2
    /\ Len(history) = 6
    /\ FirstCallFailed

\* inside chat_step, up to its last event
InTurn == pc \in {"model1", "parse", "dispatch", "synth", "content"}

\* C14: a step that changes the model identifier happens between two turns
\* and changes nothing else; every model call of a turn carries the
\* identifier the session has during that turn.
C14_SetModelKeepsHistory ==
    /\ [](InTurn => \A j \in 1..Len(requests) : requests[j].model = model)
    /\ [][model' # model =>
             /\ pc = "await" /\ pc' = "await"
             /\ history' = history
             /\ UNCHANGED <<tool_calls, idx, args, events, requests, ran, base>>]_vars

C14_Witness ==
    /\ pc = "content"
    /\ model # DefaultModel
    /\ base > 1
    /\ Len(requests) = 2
    /\ requests[1].model = model
    /\ requests[2].model = model

\* C13: a running turn always comes to its end and the session is back at
\* the prompt, unless the user interrupts it; the session is left only by a
\* step in which the user types exit or quit, or interrupts.
C13_NoFailureIsFatal ==
    /\ InTurn ~> pc \in {"await", "interrupted"}
    /\ [][(pc' \in {"ended", "interrupted"} /\ pc \notin {"ended", "interrupted"}) =>
             ((\E u \in UserInputs : Exit(u)) \/ Interrupt)]_vars

\* back at the prompt after a turn whose first call failed and a turn with a
\* raising call and a failed synthesis
C13_Witness ==
    /\ pc = "await"
    /\ Len(history) >= 3
    /\ history[2].role = "user"
    /\ history[3].role = "user"
    /\ SynthesisFailed
    /\ tool_calls # << >>
    /\ Raises(tool_calls[1])

\* the tool turns appended so far in the current user turn
ResultCount ==
    Cardinality({k \in (base + 3)..Len(history) : history[k].role = "tool"})

EventCount(prefix) ==
    Cardinality({k \in 1..Len(events) :
                    /\ events[k].type = "status"
                    /\ Len(events[k].value) >= Len(prefix)
                    /\ SubSeq(events[k].value, 1, Len(prefix)) = prefix})

\* C19: the results in the history are those of invocations 1..r in the order
\* issued and of no later one, r being the number of Completed events; a
\* handler is about to start only when all earlier results are appended, and
\* at most one Running event is without its Completed event.
C19_OneAtATimeInOrder ==
    BatchReturned =>
        /\ ResultCount <= Len(tool_calls)
        /\ \A i \in 1..ResultCount :
               /\ history[ResultIndex(i)].role = "tool"
               /\ history[ResultIndex(i)].tool_call_id = tool_calls[i].id
               /\ history[ResultIndex(i)].name = tool_calls[i].name
        /\ EventCount("Completed ") = ResultCount
        /\ EventCount("Running ") \in {ResultCount, ResultCount + 1}
        /\ pc = "dispatch" =>
               /\ idx = ResultCount + 1
               /\ EventCount("Running ") = idx
        /\ pc = "parse" =>
               /\ idx = ResultCount + 1
               /\ EventCount("Running ") = ResultCount

C19_Witness ==
    /\ pc = "dispatch"
    /\ idx = 2
    /\ ResultCount = 1
    /\ tool_calls[1].name # tool_calls[2].name

\* C20: when every invocation of a batch f1..fn has its result, the events of
\* the finished turn are Running f1, Completed f1, ..., Running fn,
\* Completed fn and one Content event: the answer appended to the history, or
\* the error text when the synthesis call failed.  While a handler is about
\* to run, the last event is its Running event and its result is not there.
C20_EventSequence ==
    /\ (TurnDone /\ BatchReturned /\ AllResults) =>
           LET n == Len(BatchCalls)
           IN  /\ Len(events) = 2 * n + 1
               /\ \A i \in 1..n :
                      /\ events[2 * i - 1] =
                             [type |-> "status",
                              value |-> "Running " \o BatchCalls[i].name \o "..."]
                      /\ events[2 * i] =
                             [type |-> "status",
                              value |-> "Completed " \o BatchCalls[i].name \o "."]
               /\ events[2 * n + 1].type = "content"
               /\ IF SynthesisFailed
                  THEN events[2 * n + 1].value \in LoopErrors
                  ELSE /\ IsFinalAnswer(history[Len(history)])
                       /\ events[2 * n + 1].value = history[Len(history)].content
    /\ pc = "dispatch" =>
           /\ events[Len(events)] =
                  [type |-> "status",
                   value |-> "Running " \o tool_calls[idx].name \o "..."]
           /\ Len(history) = ResultIndex(idx) - 1

C20_Witness ==
    /\ pc = "content"
    /\ Len(events) = 5
    /\ Len(tool_calls) = 2
    /\ tool_calls[1].name = "frobnicate"
    /\ tool_calls[2].arguments = "{}"
    /\ ~SynthesisFailed

\* --- one turn run twice ---

\* both runs of the turn are over
Replayed == replay.phase = "second" /\ pc = "await"

\* how the loop classified the first response of a run, from what it appended
Shape(turns) ==
    IF Len(turns) < 2 THEN "failed"
    ELSE IF turns[2].tool_calls # << >> THEN "batch"
    ELSE "final"

\* the user turn and the turn appended for the first response, if any
FirstTwo(turns) == SubSeq(turns, 1, IF Len(turns) < 2 THEN Len(turns) ELSE 2)

IsToolTurn(t) == t.role = "tool"
IsStatus(e) == e.type = "status"

ToolTurns(turns) == SelectSeq(turns, IsToolTurn)

\* the invocation each tool turn answers
Labels(turns) ==
    [k \in 1..Len(ToolTurns(turns)) |->
        <<ToolTurns(turns)[k].tool_call_id, ToolTurns(turns)[k].name>>]

\* C18: the two runs of a turn from equal histories with the same input have
\* the same response shape, appended the same turns and yielded the same
\* events.
C18_SameRunFromSameState ==
    Replayed =>
        /\ Shape(Appended) = Shape(replay.turns)
        /\ Appended = replay.turns
        /\ events = replay.events

\* C18, amended: the two runs have the same response shape, the same user
\* turn and the same assistant or batch turn, tool turns for the same
\* invocations in the same order and the same Status events; when the handlers
\* returned the same results in both runs, all appended turns and all events
\* are the same.
C18_SameShapeSameBatch ==
    Replayed =>
        /\ Shape(Appended) = Shape(replay.turns)
        /\ FirstTwo(Appended) = FirstTwo(replay.turns)
        /\ Labels(Appended) = Labels(replay.turns)
        /\ SelectSeq(events, IsStatus) = SelectSeq(replay.events, IsStatus)
        /\ ToolTurns(Appended) = ToolTurns(replay.turns) =>
               (Appended = replay.turns /\ events = replay.events)

\* two runs of a batch whose handlers found different file systems
C18_Witness ==
    /\ Replayed
    /\ Shape(Appended) = "batch"
    /\ ToolTurns(Appended) # ToolTurns(replay.turns)
    /\ Labels(Appended) # << >>


\* --- a direct answer ---

\* the first model call of the current turn returned no tool calls
FirstCallAnswered == requests # << >> /\ requests[1].outcome = "final"

\* C22: a first response without tool calls appends the user turn and one
\* assistant turn with the model's text and nothing else, yields one event,
\* the Content with that text, runs no handler, yields no Status and makes no
\* second model call.
C22_DirectAnswer ==
    (TurnDone /\ FirstCallAnswered) =>
        /\ Len(history) = base + 2
        /\ history[base + 1].role = "user"
        /\ IsFinalAnswer(history[base + 2])
        /\ history[base + 2].content \in ModelTexts
        /\ events = <<Content(history[base + 2].content)>>
        /\ ran = << >>
        /\ tool_calls = << >>
        /\ Len(requests) = 1

\* back at the prompt after a second turn that was answered directly
C22_Witness ==
    pc = "await" /\ FirstCallAnswered /\ base > 1


\* --- two sessions ---

\* C23: a step of one session (chat_step, set_model) leaves the history, the
\* model identifier and everything else of the other session as they were,
\* and no step changes the catalog, which is what every first call offers.
C23_SessionsShareNothing ==
    /\ [](catalog = SchemaNames)
    /\ [](\A j \in 1..Len(requests) : requests[j].tools \in {catalog, {}})
    /\ [][catalog' = catalog]_vars
    /\ [][peer'.instance = peer.instance => peer' = peer]_vars

\* the second session is in the middle of a batch while the first one holds a
\* finished turn and another model
C23_Witness ==
    /\ peer.instance = 1
    /\ pc = "dispatch"
    /\ Len(peer.history) > 1
    /\ peer.pc = "await"
    /\ peer.model # model
    /\ peer.history # history


\* --- the observer ---

\* the loop has emitted a Status event and has work left in the batch
StatusEmitted ==
    /\ pc \in {"parse", "dispatch", "synth"}
    /\ events # << >>
    /\ events[Len(events)].type = "status"

\* C21: after a Status event is emitted the loop can go on (run the next
\* handler, append the next turn, make the synthesis call) whether or not the
\* observer has handled that event or asked for the next one.
C21_StatusDoesNotBlock == StatusEmitted => ENABLED Advance


\* --- the file tools ---

\* text[:len(prefix)] == prefix
StartsWith(text, prefix) ==
    Len(text) >= Len(prefix) /\ SubSeq(text, 1, Len(prefix)) = prefix

\* part in text
Contains(text, part) ==
    \E i \in 1..(Len(text) - Len(part) + 1) :
        SubSeq(text, i, i + Len(part) - 1) = part

\* a file can be at p: one is there already, or nothing is and the
\* directories above it are there or can be made
Writable(f, p) ==
    \/ IsFile(f, p)
    \/ ~PathExists(f, p) /\ MakeDirs(f, Parent(p)).ok

\* C15: after write_to_file(path, content) on a path that holds a file or is
\* free, the file there holds content and the text returned is not an error.
C15_WriteToFileOverwrites ==
    (last.op = "write_to_file" /\ Writable(last.pre, ResolvePath(last.path, last.pre))) =>
        /\ fs[ResolvePath(last.path, last.pre)] = File(last.content)
        /\ ~StartsWith(last.ret, "Error")

\* C16: after manage_files("copy", files, target) with a target that is a
\* directory or does not exist, every file of files that existed has a copy at
\* target/<its basename>.
C16_CopyReachesTarget ==
    (/\ last.op = "manage_files"
     /\ last.action = "copy"
     /\ last.target # None
     /\ ~IsFile(last.pre, Join(Cwd, last.target))) =>
        \A i \in 1..Len(last.files) :
            IsFile(last.pre, Join(Cwd, last.files[i])) =>
                fs[Join(Join(Cwd, last.target), Basename(last.files[i]))]
                    = last.pre[Join(Cwd, last.files[i])]

\* C17: git_manager(repo_path) on an existing directory without .git, with no
\* remote URL and a working git, runs init, add, commit in that order and
\* nothing else, leaves repo_path/.git and returns a text containing
\* "Git operations successful".
C17_GitManagerInit ==
    (/\ last.op = "git_manager"
     /\ IsDir(last.pre, Join(Cwd, last.path))
     /\ ~PathExists(last.pre, Join(Join(Cwd, last.path), ".git"))
     /\ last.remote_url = None
     /\ last.addOk) =>
        /\ last.cmds = <<"init", "add", "commit">>
        /\ IsDir(fs, Join(Join(Cwd, last.path), ".git"))
        /\ Contains(last.ret, "Git operations successful")


\* what the last deletion took away for good: there before, not there after,
\* not in the recycle bin
Lost ==
    {l \in Locations : PathExists(last.pre, l) /\ ~PathExists(fs, l)} \ last.binned

\* C24: delete_file without safe or with safe=true on an existing path moves
\* it to the recycle bin and removes nothing for good; something is removed
\* for good only when safe=false was passed; on a missing path the text is an
\* error and nothing is deleted.
C24_DeleteIsSafeByDefault ==
    last.op = "delete_file" =>
        LET p == ResolvePath(last.path, last.pre)
        IN  /\ (PathExists(last.pre, p) /\ last.safe \in {Omitted, "true"}) =>
                   /\ ~PathExists(fs, p)
                   /\ p \in last.binned
                   /\ Lost = {}
            /\ Lost # {} => last.safe = "false"
            /\ ~PathExists(last.pre, p) =>
                   /\ StartsWith(last.ret, "Error")
                   /\ fs = last.pre
                   /\ last.binned = {}


\* --- the catalog ---

\* C25: every name of the catalog is bound to the function imported from
\* tools under that name; the result of an invocation naming it is never the
\* "not implemented" text: the handler of that name ran, or the call of it
\* failed on its arguments.
C25_CatalogResolves ==
    /\ SchemaNames \subseteq ToolImports
    /\ \A k \in 1..Len(history) :
           (history[k].role = "tool" /\ history[k].name \in SchemaNames) =>
               /\ history[k].content # NotImplementedText(history[k].name)
               /\ \/ \E j \in 1..Len(ran) : ran[j] = history[k].name
                  \/ StartsWith(history[k].content,
                                "Execution Error: " \o history[k].name \o "() ")

\* the turn is over and create_file, a name of the catalog, has run
C25_Witness ==
    /\ pc = "await"
    /\ \E k \in 1..Len(history) :
           /\ history[k].role = "tool"
           /\ history[k].name = "create_file"
           /\ history[k].content = Returned("create_file")


\* --- texts ---

\* C26: every Content event carries a text, never None, and every assistant
\* final-answer turn of the history has a text as content, whatever the model
\* returns on either call.
C26_ContentIsText ==
    /\ \A k \in 1..Len(events) :
           events[k].type = "content" => events[k].value # None
    /\ \A k \in 1..Len(history) :
           IsFinalAnswer(history[k]) => history[k].content # None


=============================================================================
